---- MODULE Spec2Model ----
(***************************************************************************)
(* Model of packages/expo-cli/src/commands/eas-build/utils/expoUpdates.ts: *)
(* the reconciler that writes the expo-updates configuration (update URL,  *)
(* runtime/SDK version, build-script hooks) into the native Android and    *)
(* iOS project files.                                                      *)
(*                                                                         *)
(* The project directory is the record fs (four files).  Each exported     *)
(* function of the module is one action; the body of the function is an    *)
(* operator over an execution record                                       *)
(*      [fs, tr, err, ret, budget, env]                                    *)
(* fs: the files, tr: the I/O events performed so far, err: the exception  *)
(* in flight ("none" when there is none), ret: the value returned,         *)
(* budget: how many side effects the process may still perform before it   *)
(* is interrupted, env: the answers of the version-control collaborator.   *)
(***************************************************************************)
EXTENDS Integers, Sequences, FiniteSets, TLC

VARIABLES
    deps,       \* packageJson.dependencies: [present, names]
    exp,        \* the declared configuration: [runtimeVersion, sdkVersion]
    username,   \* UserManager.getCurrentUsernameAsync(): a name or Null
    fs,         \* the native project files
    pre,        \* the files as they were when the last invocation started
    last,       \* the last invocation: [op, tr, res, ret]
    prev,       \* the invocation before it: [op, tr, res, ret]
    runs        \* number of invocations so far

vars == <<deps, exp, username, fs, pre, last, prev, runs>>

\* Number of invocations explored in one behaviour.
MaxRuns == 2
\* Side effects a process may perform before it is interrupted; a full
\* reconciliation performs at most six, so MaxEffects means "never".
MaxEffects == 6
\* Longest meta-data list of the manifests getAndroidMetadataValue is
\* explored on by itself.
MaxMeta == 3

(***************************************************************************)
(* JavaScript values                                                       *)
(***************************************************************************)
Null == "null"
Undefined == "undefined"

\* JavaScript truthiness of a string | null | undefined.
Truthy(v) == v # Null /\ v # Undefined /\ v # ""

(***************************************************************************)
(* Constants of the module                                                 *)
(***************************************************************************)
\* One token of a shell script: the path of the iOS build script.
iOSBuildScript == "create-manifest-ios.sh"
\* One line of build.gradle: the apply-from directive, double-quoted.
androidBuildScript == "apply from: \"create-manifest-android.gradle\""
\* androidBuildScript.replace(/"/g, "'")
androidBuildScriptSingleQuoted == "apply from: 'create-manifest-android.gradle'"
\* The comment line written in front of the directive.
androidBuildComment == "// Integration with Expo updates"

\* Keys of the Android meta-data entries and of Expo.plist.
UPDATE_URL == "UPDATE_URL"
RUNTIME_VERSION == "RUNTIME_VERSION"
SDK_VERSION == "SDK_VERSION"

(***************************************************************************)
(* Execution record and its three primitives                               *)
(***************************************************************************)
\* An effect on the project directory: refused when the process is
\* interrupted before it (budget exhausted), skipped when an exception is
\* in flight.
Effect(st, ev, newfs) ==
    IF st.err # "none" THEN st
    ELSE IF st.budget = 0 THEN [st EXCEPT !.err = "killed"]
    ELSE [st EXCEPT !.fs = newfs, !.tr = Append(@, ev), !.budget = @ - 1]

\* An event that changes no file.
Note(st, ev) ==
    IF st.err # "none" THEN st ELSE [st EXCEPT !.tr = Append(@, ev)]

\* throw new Error(e)
Throw(st, e) ==
    IF st.err # "none" THEN st ELSE [st EXCEPT !.err = e]

\* return v
Return(st, v) ==
    IF st.err # "none" THEN st ELSE [st EXCEPT !.ret = v]

Has(tr, ev) == \E i \in DOMAIN tr : tr[i] = ev
Count(tr, ev) == Cardinality({i \in DOMAIN tr : tr[i] = ev})
\* Position of the first occurrence of ev in tr, 0 when absent.
Pos(tr, ev) ==
    IF Has(tr, ev) THEN CHOOSE i \in DOMAIN tr :
                            tr[i] = ev /\ \A j \in 1..(i - 1) : tr[j] # ev
    ELSE 0

(***************************************************************************)
(* Ordered name/value entries (meta-data items, plist keys)                *)
(***************************************************************************)
HasEntry(entries, name) == \E i \in DOMAIN entries : entries[i].name = name

FirstIndex(entries, name) ==
    CHOOSE i \in DOMAIN entries :
        entries[i].name = name /\ \A j \in 1..(i - 1) : entries[j].name # name

RemoveAt(entries, i) ==
    [j \in 1..(Len(entries) - 1) |-> IF j < i THEN entries[j] ELSE entries[j + 1]]

(***************************************************************************)
(* @expo/config: the declared configuration and the desired values.  This  *)
(* package is outside the source tree at hand; it is modelled from the     *)
(* specification's description of the Config Resolver and the adapters.    *)
(***************************************************************************)
\* Updates.getRuntimeVersion(exp): the declared runtime version or null.
getRuntimeVersion(e) ==
    IF e.runtimeVersion = Undefined THEN Null ELSE e.runtimeVersion

\* Updates.getSDKVersion(exp): the declared SDK version or null.
getSDKVersion(e) ==
    IF e.sdkVersion = Undefined THEN Null ELSE e.sdkVersion

\* Updates.getUpdateUrl(exp, username): the update URL of the account's
\* project, null for an unauthenticated session.
getUpdateUrl(e, user) ==
    IF user = Null THEN Null ELSE "https://exp.host/@" \o user \o "/app"

(***************************************************************************)
(* @expo/config AndroidConfig.Manifest / AndroidConfig.Updates             *)
(* (modelled from the specification, section 4.3)                          *)
(***************************************************************************)
\* Insert or replace the meta-data entry `name` of the application node.
addMetaDataItemToMainApplication(m, name, value) ==
    IF m.hasMeta /\ HasEntry(m.meta, name)
    THEN [m EXCEPT !.meta[FirstIndex(m.meta, name)].value = value]
    ELSE [m EXCEPT !.hasMeta = TRUE,
                   !.meta = Append(m.meta, [name |-> name, value |-> value])]

\* Drop the meta-data entry `name` of the application node.
removeMetaDataItemFromMainApplication(m, name) ==
    IF m.hasMeta /\ HasEntry(m.meta, name)
    THEN [m EXCEPT !.meta = RemoveAt(m.meta, FirstIndex(m.meta, name))]
    ELSE m

\* AndroidConfig.Updates.setVersionsConfig(exp, manifest): the declared
\* runtime version wins over the declared SDK version.
AndroidSetVersionsConfig(e, m) ==
    IF Truthy(getRuntimeVersion(e))
    THEN addMetaDataItemToMainApplication(
             removeMetaDataItemFromMainApplication(m, SDK_VERSION),
             RUNTIME_VERSION, getRuntimeVersion(e))
    ELSE IF Truthy(getSDKVersion(e))
    THEN addMetaDataItemToMainApplication(
             removeMetaDataItemFromMainApplication(m, RUNTIME_VERSION),
             SDK_VERSION, getSDKVersion(e))
    ELSE removeMetaDataItemFromMainApplication(
             removeMetaDataItemFromMainApplication(m, RUNTIME_VERSION),
             SDK_VERSION)

\* AndroidConfig.Updates.setUpdatesConfig(exp, manifest, username)
AndroidSetUpdatesConfig(e, m, user) ==
    AndroidSetVersionsConfig(e,
        IF Truthy(getUpdateUrl(e, user))
        THEN addMetaDataItemToMainApplication(m, UPDATE_URL, getUpdateUrl(e, user))
        ELSE removeMetaDataItemFromMainApplication(m, UPDATE_URL))

\* AndroidConfig.Manifest.writeAndroidManifestAsync(path, result): the
\* document is serialised by the XML builder, whatever its layout was.
writeAndroidManifestAsync(st, m) ==
    Effect(st, "write:AndroidManifest.xml",
           [st.fs EXCEPT !.manifest = [m EXCEPT !.fmt = "tool"]])

(***************************************************************************)
(* Android tree                                                            *)
(***************************************************************************)
\* Variant: the last entry named `name` is taken.
getAndroidMetadataValueLastMatch(m, name) ==
    IF m.hasMeta /\ HasEntry(m.meta, name)
    THEN m.meta[CHOOSE i \in DOMAIN m.meta :
                    m.meta[i].name = name
                        /\ \A j \in (i + 1)..Len(m.meta) : m.meta[j].name # name].value
    ELSE Undefined

\* The value of the first meta-data entry named `name` of the
\* .MainApplication node, undefined when there is none.  (With no
\* .MainApplication node the function throws: see MainApplicationMissing.)
getAndroidMetadataValue(m, name) ==
    IF m.hasMeta
    THEN IF HasEntry(m.meta, name)
         THEN m.meta[FirstIndex(m.meta, name)].value
         ELSE Undefined
    ELSE Undefined

\* filter(...)[0] is undefined: mainApplication.hasOwnProperty throws.
MainApplicationMissing(m) == ~m.mainApp

isVersionsSetAndroid(m) ==
    Truthy(getAndroidMetadataValue(m, RUNTIME_VERSION))
        \/ Truthy(getAndroidMetadataValue(m, SDK_VERSION))

isMetadataSetAndroid(m, e, user) ==
    /\ isVersionsSetAndroid(m)
    /\ Truthy(getUpdateUrl(e, user))
    /\ getAndroidMetadataValue(m, UPDATE_URL) = getUpdateUrl(e, user)

\* Variant: the whole text is compared with the directive, not its lines.
hasBuildScriptApplyWholeText(lines) ==
    Len(lines) = 1
        /\ (lines[1] = androidBuildScript \/ lines[1] = androidBuildScriptSingleQuoted)

hasBuildScriptApply(lines) ==
    \E i \in DOMAIN lines :
        lines[i] = androidBuildScript \/ lines[i] = androidBuildScriptSingleQuoted

\* throws when build.gradle does not exist
getAndroidBuildGradleContentAsync(st) ==
    IF ~st.fs.gradle.exists THEN Throw(st, "GradleNotFound") ELSE st

\* throws when the manifest cannot be located
getAndroidManifestJSONAsync(st) ==
    IF ~st.fs.manifest.exists THEN Throw(st, "ManifestNotFound") ELSE st

\* Variant: the directive is appended in its single-quoted form.
AppendBuildScriptApplySingleQuoted(lines) ==
    lines \o <<androidBuildComment, androidBuildScriptSingleQuoted, "">>

\* `${buildGradleContent}\n// Integration with Expo updates\n${androidBuildScript}\n`
\* as the lines of the file (the text split at "\n").
AppendBuildScriptApply(lines) ==
    lines \o <<androidBuildComment, androidBuildScript, "">>

WriteManifestIfUnset(st, e, user) ==
    IF st.err # "none" THEN st
    ELSE IF MainApplicationMissing(st.fs.manifest) THEN Throw(st, "TypeError")
    ELSE IF ~isMetadataSetAndroid(st.fs.manifest, e, user)
    THEN writeAndroidManifestAsync(st, AndroidSetUpdatesConfig(e, st.fs.manifest, user))
    ELSE st

configureUpdatesAndroidAsync(st, e, user) ==
    LET s1 == getAndroidBuildGradleContentAsync(st)
        s2 == IF s1.err # "none" THEN s1
              ELSE IF ~hasBuildScriptApply(s1.fs.gradle.lines)
              THEN Effect(s1, "write:build.gradle",
                          [s1.fs EXCEPT !.gradle.lines = AppendBuildScriptApply(@)])
              ELSE s1
        s3 == getAndroidManifestJSONAsync(s2)
    IN  WriteManifestIfUnset(s3, e, user)

\* Variant: any stored version counts as up to date (the guard of the full
\* reconciliation used for the version-only one).
setVersionsAndroidAsyncAnyVersion(st, e) ==
    LET s1 == getAndroidManifestJSONAsync(st)
        m  == s1.fs.manifest
    IN  IF s1.err # "none" THEN s1
        ELSE IF MainApplicationMissing(m) THEN Throw(s1, "TypeError")
        ELSE IF isVersionsSetAndroid(m) THEN s1
        ELSE writeAndroidManifestAsync(s1, AndroidSetVersionsConfig(e, m))

setVersionsAndroidAsync(st, e) ==
    LET s1 == getAndroidManifestJSONAsync(st)
        m  == s1.fs.manifest
        runtimeVersion == getRuntimeVersion(e)
        sdkVersion     == getSDKVersion(e)
    IN  IF s1.err # "none" THEN s1
        ELSE IF MainApplicationMissing(m) THEN Throw(s1, "TypeError")
        ELSE IF \/ (Truthy(runtimeVersion)
                      /\ runtimeVersion = getAndroidMetadataValue(m, RUNTIME_VERSION))
                \/ (Truthy(sdkVersion)
                      /\ sdkVersion = getAndroidMetadataValue(m, SDK_VERSION))
        THEN s1
        ELSE writeAndroidManifestAsync(s1, AndroidSetVersionsConfig(e, m))

(***************************************************************************)
(* @expo/config IOSConfig.Updates (modelled from the specification,        *)
(* section 4.2): the plist is an object, its keys kept in insertion order. *)
(***************************************************************************)
\* obj[name] = value
SetKey(entries, name, value) ==
    IF HasEntry(entries, name)
    THEN [entries EXCEPT ![FirstIndex(entries, name)].value = value]
    ELSE Append(entries, [name |-> name, value |-> value])

\* delete obj[name]
DeleteKey(entries, name) ==
    IF HasEntry(entries, name)
    THEN RemoveAt(entries, FirstIndex(entries, name))
    ELSE entries

\* obj[name]
GetKey(entries, name) ==
    IF HasEntry(entries, name)
    THEN entries[FirstIndex(entries, name)].value
    ELSE Undefined

\* IOSConfig.Updates.setVersionsConfig(exp, expoPlist): a new object.
IOSSetVersionsConfig(e, entries) ==
    IF Truthy(getRuntimeVersion(e))
    THEN SetKey(DeleteKey(entries, SDK_VERSION), RUNTIME_VERSION, getRuntimeVersion(e))
    ELSE IF Truthy(getSDKVersion(e))
    THEN SetKey(DeleteKey(entries, RUNTIME_VERSION), SDK_VERSION, getSDKVersion(e))
    ELSE DeleteKey(DeleteKey(entries, RUNTIME_VERSION), SDK_VERSION)

\* IOSConfig.Updates.setUpdatesConfig(exp, expoPlist, username): a new object.
IOSSetUpdatesConfig(e, entries, user) ==
    IOSSetVersionsConfig(e,
        IF Truthy(getUpdateUrl(e, user))
        THEN SetKey(entries, UPDATE_URL, getUpdateUrl(e, user))
        ELSE DeleteKey(entries, UPDATE_URL))

(***************************************************************************)
(* iOS tree                                                                *)
(***************************************************************************)
\* glob('ios/*/project.pbxproj') finds nothing
getPbxprojPathAsync(st) ==
    IF ~st.fs.pbx.exists THEN Throw(st, "XcodeProjectNotFound") ELSE st

\* project.parse fails
getXcodeProjectAsync(st) ==
    IF st.err = "none" /\ ~st.fs.pbx.parses THEN Throw(st, "ParseError") ELSE st

\* no phase named "Bundle React Native code and images"
getBundleReactNativePhaseAsync(st) ==
    IF st.err = "none" /\ ~st.fs.pbx.hasPhase
    THEN Throw(st, "BuildPhaseNotFound") ELSE st

\* Variant: the hook is looked for at the end of the script only.
IncludesBuildScriptAtEnd(script) ==
    Len(script) >= 3 /\ script[Len(script) - 2] = iOSBuildScript

\* shellScript.includes(iOSBuildScript)
IncludesBuildScript(script) == \E i \in DOMAIN script : script[i] = iOSBuildScript

\* `${shellScript.replace(/"$/, '')}${iOSBuildScript}\\n"`
AppendBuildScript(script) ==
    (IF Len(script) > 0 /\ script[Len(script)] = "\""
     THEN SubSeq(script, 1, Len(script) - 1)
     ELSE script) \o <<iOSBuildScript, "\\n", "\"">>

\* What callbacks of modifyExpoPlistAsync return: the object, and whether it
\* is the very object the callback received (===).
Same(entries) == [obj |-> entries, same |-> TRUE]
Fresh(entries) == [obj |-> entries, same |-> FALSE]

\* gitAddAsync(path, { intentToAdd: true })
gitAddAsync(st, file) ==
    IF st.err = "none" /\ ~st.env.gitAddOk
    THEN Throw(st, "GitAddError")
    ELSE Effect(st, "stage:" \o file, st.fs)

\* The callback configureUpdatesIOSAsync hands to modifyExpoPlistAsync.
setUpdatesConfigCallback(e, user, expoPlist) ==
    Fresh(IOSSetUpdatesConfig(e, expoPlist, user))

\* The callback setVersionsIOSAsync hands to modifyExpoPlistAsync.
setVersionsCallback(e, expoPlist) ==
    IF \/ (Truthy(getRuntimeVersion(e))
             /\ GetKey(expoPlist, RUNTIME_VERSION) = getRuntimeVersion(e))
       \/ (Truthy(getSDKVersion(e))
             /\ GetKey(expoPlist, SDK_VERSION) = getSDKVersion(e))
    THEN Same(expoPlist)
    ELSE Fresh(IOSSetVersionsConfig(e, expoPlist))

\* callback(expoPlist), the callback given by its name and what it closes over.
Call(callback, e, user, expoPlist) ==
    IF callback = "setUpdatesConfig"
    THEN setUpdatesConfigCallback(e, user, expoPlist)
    ELSE setVersionsCallback(e, expoPlist)

\* Variant: the plist is written back whatever the callback returned.
modifyExpoPlistAsyncAlways(st, callback, e, user) ==
    LET s1 == getPbxprojPathAsync(st)
        expoPlist == IF s1.fs.plist.exists THEN s1.fs.plist.entries ELSE <<>>
        updated == Call(callback, e, user, expoPlist)
    IN  IF s1.err # "none" THEN s1
        ELSE LET s2 == Effect(s1, "mkdirp", s1.fs)
                 s3 == Effect(s2, "write:Expo.plist",
                              [s2.fs EXCEPT !.plist = [exists |-> TRUE, fmt |-> "tool",
                                                       entries |-> updated.obj]])
             IN  gitAddAsync(s3, "Expo.plist")

modifyExpoPlistAsync(st, callback, e, user) ==
    LET s1 == getPbxprojPathAsync(st)
        expoPlist == IF s1.fs.plist.exists THEN s1.fs.plist.entries ELSE <<>>
        updated == Call(callback, e, user, expoPlist)
    IN  IF s1.err # "none" THEN s1
        ELSE IF updated.same THEN s1
        ELSE LET s2 == Effect(s1, "mkdirp", s1.fs)
                 s3 == Effect(s2, "write:Expo.plist",
                              [s2.fs EXCEPT !.plist = [exists |-> TRUE, fmt |-> "tool",
                                                       entries |-> updated.obj]])
             IN  gitAddAsync(s3, "Expo.plist")

\* Variant: Expo.plist is dealt with before project.pbxproj is written.
configureUpdatesIOSAsyncPlistFirst(st, e, user) ==
    LET s1 == getBundleReactNativePhaseAsync(getXcodeProjectAsync(getPbxprojPathAsync(st)))
        shellScript == IF ~IncludesBuildScript(s1.fs.pbx.script)
                       THEN AppendBuildScript(s1.fs.pbx.script)
                       ELSE s1.fs.pbx.script
        s2 == IF s1.err # "none" THEN s1
              ELSE modifyExpoPlistAsync(s1, "setUpdatesConfig", e, user)
    IN  IF s2.err # "none" THEN s2
        ELSE Effect(s2, "write:project.pbxproj",
                    [s2.fs EXCEPT !.pbx.script = shellScript, !.pbx.fmt = "tool"])

configureUpdatesIOSAsync(st, e, user) ==
    LET s1 == getBundleReactNativePhaseAsync(getXcodeProjectAsync(getPbxprojPathAsync(st)))
        shellScript == IF ~IncludesBuildScript(s1.fs.pbx.script)
                       THEN AppendBuildScript(s1.fs.pbx.script)
                       ELSE s1.fs.pbx.script
        \* fs.writeFile(pbxprojPath, project.writeSync())
        s2 == IF s1.err # "none" THEN s1
              ELSE Effect(s1, "write:project.pbxproj",
                          [s1.fs EXCEPT !.pbx.script = shellScript, !.pbx.fmt = "tool"])
    IN  IF s2.err # "none" THEN s2
        ELSE modifyExpoPlistAsync(s2, "setUpdatesConfig", e, user)

\* Variant: the version-only pass hands the callback of the full pass to
\* modifyExpoPlistAsync.
setVersionsIOSAsyncFullConfig(st, e) ==
    IF st.err # "none" THEN st
    ELSE modifyExpoPlistAsync(st, "setUpdatesConfig", e, username)

setVersionsIOSAsync(st, e) ==
    IF st.err # "none" THEN st
    ELSE modifyExpoPlistAsync(st, "setVersionsConfig", e, Null)

isVersionsSetIOS(expoPlistData) ==
    Truthy(GetKey(expoPlistData, RUNTIME_VERSION))
        \/ Truthy(GetKey(expoPlistData, SDK_VERSION))

\* Variant: any stored URL counts, whatever the desired one is.
isMetadataSetIOSAnyUrl(expoPlistData, e, user) ==
    /\ isVersionsSetIOS(expoPlistData)
    /\ Truthy(getUpdateUrl(e, user))
    /\ Truthy(GetKey(expoPlistData, UPDATE_URL))

isMetadataSetIOS(expoPlistData, e, user) ==
    /\ isVersionsSetIOS(expoPlistData)
    /\ Truthy(getUpdateUrl(e, user))
    /\ GetKey(expoPlistData, UPDATE_URL) = getUpdateUrl(e, user)

(***************************************************************************)
(* Config resolver and the version-control collaborator                    *)
(***************************************************************************)
\* Variant: only the presence of the dependencies object is tested.
isExpoUpdatesInstalledAnyDependencies(d) == d.present

\* packageJson.dependencies && 'expo-updates' in packageJson.dependencies
isExpoUpdatesInstalled(d) == d.present /\ "expo-updates" \in d.names

\* Variant: the versions are not validated.
getConfigurationOptionsAsyncUnchecked(st) == Note(st, "resolve")

getConfigurationOptionsAsync(st) ==
    LET s1 == Note(st, "resolve")
    IN  IF ~Truthy(exp.runtimeVersion) /\ ~Truthy(exp.sdkVersion)
        THEN Throw(s1, "MissingVersionError")
        ELSE s1

\* gitUtils.ensureGitStatusIsCleanAsync(): throws DirtyGitTreeError when the
\* working tree has uncommitted changes (modelled from the specification,
\* section 6).  The event records the answer.
ensureGitStatusIsCleanAsync(st) ==
    IF st.err # "none" THEN st
    ELSE IF st.env.dirty
    THEN Throw(Note(st, "gitCheck:dirty"), "DirtyGitTreeError")
    ELSE Note(st, "gitCheck:clean")

\* gitUtils.reviewAndCommitChangesAsync(message, { nonInteractive }): fails
\* when the operator declines or the commit fails (specification, section 6).
reviewAndCommitChangesAsync(st) ==
    IF st.err # "none" THEN st
    ELSE IF st.env.commitOk
    THEN Note(st, "commit:ok")
    ELSE Throw(Note(st, "commit:declined"), "CommitDeclined")

\* Variant: the failure of the commit step is rethrown as it is.
CatchDirtyGitTreeRethrow(st) ==
    IF st.err = "DirtyGitTreeError"
    THEN reviewAndCommitChangesAsync([st EXCEPT !.err = "none"])
    ELSE st

\* Variant: every exception is taken for the dirty-workspace signal.
CatchAnyError(st) ==
    IF st.err \notin {"none", "killed"}
    THEN LET s1 == reviewAndCommitChangesAsync([st EXCEPT !.err = "none"])
         IN  IF s1.err # "none" THEN [s1 EXCEPT !.err = "AbortError"] ELSE s1
    ELSE st

\* The catch block of both entry points.  An interrupted process runs no
\* catch block.
CatchDirtyGitTree(st) ==
    IF st.err = "DirtyGitTreeError"
    THEN LET s1 == reviewAndCommitChangesAsync([st EXCEPT !.err = "none"])
         IN  IF s1.err # "none" THEN [s1 EXCEPT !.err = "AbortError"] ELSE s1
    ELSE st

(***************************************************************************)
(* Exported functions                                                      *)
(***************************************************************************)
\* Variant: the iOS pass runs first.
configureUpdatesAsyncIOSFirst(st) ==
    IF ~isExpoUpdatesInstalled(deps) THEN st
    ELSE LET s1 == getConfigurationOptionsAsync(st)
             s2 == Note(configureUpdatesIOSAsync(s1, exp, username), "iosDone")
             s3 == Note(configureUpdatesAndroidAsync(s2, exp, username), "androidDone")
             s4 == ensureGitStatusIsCleanAsync(s3)
         IN  CatchDirtyGitTree(s4)

configureUpdatesAsync(st) ==
    IF ~isExpoUpdatesInstalled(deps) THEN st
    ELSE LET s1 == getConfigurationOptionsAsync(st)
             s2 == Note(configureUpdatesAndroidAsync(s1, exp, username), "androidDone")
             s3 == Note(configureUpdatesIOSAsync(s2, exp, username), "iosDone")
             s4 == ensureGitStatusIsCleanAsync(s3)
         IN  CatchDirtyGitTree(s4)

setUpdateVersionsAsync(st) ==
    IF ~isExpoUpdatesInstalled(deps) THEN st
    ELSE LET s1 == getConfigurationOptionsAsync(st)
             s2 == Note(setVersionsAndroidAsync(s1, exp), "androidDone")
             s3 == Note(setVersionsIOSAsync(s2, exp), "iosDone")
             s4 == ensureGitStatusIsCleanAsync(s3)
         IN  CatchDirtyGitTree(s4)

isUpdatesConfiguredIOSAsync(st) ==
    IF ~isExpoUpdatesInstalled(deps) THEN Return(st, "true")
    ELSE LET s1 == getBundleReactNativePhaseAsync(getXcodeProjectAsync(
                       getPbxprojPathAsync(getConfigurationOptionsAsync(st))))
         IN  IF s1.err # "none" THEN s1
             ELSE IF ~IncludesBuildScript(s1.fs.pbx.script) THEN Return(s1, "false")
             ELSE IF ~s1.fs.plist.exists THEN Return(s1, "false")
             ELSE IF isMetadataSetIOS(s1.fs.plist.entries, exp, username)
             THEN Return(s1, "true")
             ELSE Return(s1, "false")

\* Variant: the predicate looks at build.gradle only.
isUpdatesConfiguredAndroidAsyncGradleOnly(st) ==
    IF ~isExpoUpdatesInstalled(deps) THEN Return(st, "true")
    ELSE LET s1 == getAndroidBuildGradleContentAsync(getConfigurationOptionsAsync(st))
         IN  IF s1.err # "none" THEN s1
             ELSE IF ~hasBuildScriptApply(s1.fs.gradle.lines) THEN Return(s1, "false")
             ELSE Return(s1, "true")

isUpdatesConfiguredAndroidAsync(st) ==
    IF ~isExpoUpdatesInstalled(deps) THEN Return(st, "true")
    ELSE LET s1 == getAndroidBuildGradleContentAsync(getConfigurationOptionsAsync(st))
             s2 == getAndroidManifestJSONAsync(s1)
         IN  IF s1.err # "none" THEN s1
             ELSE IF ~hasBuildScriptApply(s1.fs.gradle.lines) THEN Return(s1, "false")
             ELSE IF s2.err # "none" THEN s2
             ELSE IF MainApplicationMissing(s2.fs.manifest) THEN Throw(s2, "TypeError")
             ELSE IF ~isMetadataSetAndroid(s2.fs.manifest, exp, username)
             THEN Return(s2, "false")
             ELSE Return(s2, "true")

(***************************************************************************)
(* Initial states                                                          *)
(***************************************************************************)
Entry(n, v) == [name |-> n, value |-> v]

UrlOf(user) == "https://exp.host/@" \o user \o "/app"

\* Stored URL entry: none, the URL of the signed-in account, a stale one.
UrlEntries == {<<>>, <<Entry(UPDATE_URL, UrlOf("alice"))>>,
                     <<Entry(UPDATE_URL, UrlOf("bob"))>>}

\* Stored version entries.
VersionEntries ==
    {<<>>,
     <<Entry(RUNTIME_VERSION, "1.0.0")>>,
     <<Entry(RUNTIME_VERSION, "1.1.0")>>,
     <<Entry(RUNTIME_VERSION, "")>>,
     <<Entry(SDK_VERSION, "39.0.0")>>,
     <<Entry(SDK_VERSION, "38.0.0")>>,
     <<Entry(RUNTIME_VERSION, "1.0.0"), Entry(SDK_VERSION, "39.0.0")>>,
     <<Entry(SDK_VERSION, "39.0.0"), Entry(RUNTIME_VERSION, "1.1.0")>>}

\* Every version state next to the right URL; a missing or stale URL next
\* to some of them; two lists with the version in front of the URL.
EntryLists ==
    {<<Entry(UPDATE_URL, UrlOf("alice"))>> \o v : v \in VersionEntries}
        \cup {u \o v : u \in UrlEntries,
                       v \in {<<>>, <<Entry(RUNTIME_VERSION, "1.0.0")>>,
                              <<Entry(SDK_VERSION, "39.0.0")>>}}
        \cup {<<Entry(RUNTIME_VERSION, "1.0.0"), Entry(UPDATE_URL, UrlOf("alice"))>>,
              <<Entry(SDK_VERSION, "39.0.0"), Entry(UPDATE_URL, UrlOf("bob"))>>}

ConfiguredEntries ==
    <<Entry(UPDATE_URL, UrlOf("alice")), Entry(RUNTIME_VERSION, "1.0.0")>>

\* build.gradle as its lines.
FreshGradle == [exists |-> TRUE, lines |-> <<"android {}", "">>]
ConfiguredGradle ==
    [exists |-> TRUE,
     lines |-> <<"android {}", "", androidBuildComment, androidBuildScript, "">>]
GradleFiles ==
    {FreshGradle, ConfiguredGradle,
     [exists |-> FALSE, lines |-> <<>>],
     [exists |-> TRUE, lines |-> <<"android {}", androidBuildScriptSingleQuoted, "">>],
     \* the directive indented: no line equals it
     [exists |-> TRUE, lines |-> <<"android {}", "  " \o androidBuildScript, "">>]}

FreshManifest ==
    [exists |-> TRUE, fmt |-> "user", mainApp |-> TRUE, hasMeta |-> FALSE, meta |-> <<>>]
ConfiguredManifest ==
    [exists |-> TRUE, fmt |-> "tool", mainApp |-> TRUE, hasMeta |-> TRUE,
     meta |-> ConfiguredEntries]
Manifests ==
    {FreshManifest, ConfiguredManifest,
     [exists |-> FALSE, fmt |-> "user", mainApp |-> FALSE, hasMeta |-> FALSE, meta |-> <<>>],
     [exists |-> TRUE, fmt |-> "user", mainApp |-> FALSE, hasMeta |-> FALSE, meta |-> <<>>]}
        \cup {[exists |-> TRUE, fmt |-> "user", mainApp |-> TRUE, hasMeta |-> TRUE,
               meta |-> l] : l \in EntryLists}

\* The shell script of the bundle phase as tokens; it is a quoted string.
FreshScript == <<"\"", "react-native-xcode.sh", "\\n", "\"">>
ConfiguredScript ==
    <<"\"", "react-native-xcode.sh", "\\n", iOSBuildScript, "\\n", "\"">>
FreshPbx ==
    [exists |-> TRUE, parses |-> TRUE, fmt |-> "user", hasPhase |-> TRUE,
     script |-> FreshScript]
ConfiguredPbx == [FreshPbx EXCEPT !.fmt = "tool", !.script = ConfiguredScript]
PbxFiles ==
    {[exists |-> FALSE, parses |-> FALSE, fmt |-> "user", hasPhase |-> FALSE, script |-> <<>>],
     [exists |-> TRUE, parses |-> FALSE, fmt |-> "user", hasPhase |-> FALSE, script |-> <<>>],
     [exists |-> TRUE, parses |-> TRUE, fmt |-> "user", hasPhase |-> FALSE, script |-> <<>>]}
        \cup {[exists |-> TRUE, parses |-> TRUE, fmt |-> f, hasPhase |-> TRUE, script |-> s] :
                f \in {"user", "tool"},
                s \in {FreshScript, ConfiguredScript,
                       <<"\"", iOSBuildScript, "\\n", "react-native-xcode.sh", "\\n", "\"">>,
                       <<"\"", "\"">>}}

NoPlist == [exists |-> FALSE, fmt |-> "user", entries |-> <<>>]
ConfiguredPlist == [exists |-> TRUE, fmt |-> "tool", entries |-> ConfiguredEntries]
Plists ==
    {NoPlist, ConfiguredPlist}
        \cup {[exists |-> TRUE, fmt |-> "user", entries |-> l] : l \in EntryLists}

Project(g, m, x, p) == [gradle |-> g, manifest |-> m, pbx |-> x, plist |-> p]

\* Each file is explored in detail next to fresh or configured other files.
Projects ==
    {Project(FreshGradle, FreshManifest, FreshPbx, NoPlist)}
    \cup
    {Project(g, m, ConfiguredPbx, ConfiguredPlist) :
        g \in GradleFiles, m \in {FreshManifest, ConfiguredManifest}}
    \cup
    {Project(ConfiguredGradle, m, FreshPbx, NoPlist) : m \in Manifests}
    \cup
    {Project(ConfiguredGradle, ConfiguredManifest, x, p) :
        x \in PbxFiles, p \in {NoPlist, ConfiguredPlist}}
    \cup
    {Project(ConfiguredGradle, ConfiguredManifest, ConfiguredPbx, p) : p \in Plists}

\* Declared versions: none, a runtime version, an SDK version, both.
DeclaredConfigs ==
    {[runtimeVersion |-> Null, sdkVersion |-> Null],
     [runtimeVersion |-> "1.0.0", sdkVersion |-> Null],
     [runtimeVersion |-> "1.1.0", sdkVersion |-> Null],
     [runtimeVersion |-> Null, sdkVersion |-> "39.0.0"],
     [runtimeVersion |-> "1.0.0", sdkVersion |-> "39.0.0"]}

Installed == [present |-> TRUE, names |-> {"expo", "expo-updates"}]
NotInstalled ==
    {[present |-> FALSE, names |-> {}], [present |-> TRUE, names |-> {"expo"}]}

NoCall == [op |-> "none", tr |-> <<>>, res |-> "none", ret |-> "void"]

Init ==
    /\ \/ /\ deps = Installed
          /\ exp \in DeclaredConfigs
          /\ username = "alice"
       \/ /\ deps = Installed
          /\ exp \in {[runtimeVersion |-> "1.0.0", sdkVersion |-> Null],
                      [runtimeVersion |-> Null, sdkVersion |-> "39.0.0"]}
          /\ username = Null
       \/ /\ deps \in NotInstalled
          /\ exp = [runtimeVersion |-> "1.0.0", sdkVersion |-> Null]
          /\ username = "alice"
    /\ fs \in Projects
    /\ pre = fs
    /\ last = NoCall
    /\ prev = NoCall
    /\ runs = 0

(***************************************************************************)
(* Actions: one invocation of an exported function                         *)
(***************************************************************************)
\* The answers of the environment that an invocation can observe.  Inputs
\* that cannot be observed are fixed: an interrupted process asks nothing.
Envs ==
    {e \in [budget : 0..MaxEffects, dirty : BOOLEAN, commitOk : BOOLEAN,
            gitAddOk : BOOLEAN] :
        /\ (e.budget < MaxEffects => e.dirty /\ e.commitOk /\ e.gitAddOk)
        /\ (~e.gitAddOk => e.dirty /\ e.commitOk)
        /\ (~e.dirty => e.commitOk)}

Start(e) ==
    [fs |-> fs, tr |-> <<>>, err |-> "none", ret |-> "void",
     budget |-> e.budget, env |-> e]

Finish(op, st) ==
    /\ runs < MaxRuns
    /\ fs' = st.fs
    /\ pre' = fs
    /\ last' = [op |-> op, tr |-> st.tr, ret |-> st.ret,
                res |-> IF st.err = "none" THEN "ok" ELSE st.err]
    /\ prev' = last
    /\ runs' = runs + 1
    /\ UNCHANGED <<deps, exp, username>>

ConfigureUpdates ==
    \E e \in Envs : Finish("configureUpdatesAsync", configureUpdatesAsync(Start(e)))

SetUpdateVersions ==
    \E e \in Envs : Finish("setUpdateVersionsAsync", setUpdateVersionsAsync(Start(e)))

\* The predicates perform no side effect: nothing to interrupt or to ask.
Quiet == [budget |-> MaxEffects, dirty |-> FALSE, commitOk |-> TRUE, gitAddOk |-> TRUE]

IsUpdatesConfiguredIOS ==
    Finish("isUpdatesConfiguredIOSAsync", isUpdatesConfiguredIOSAsync(Start(Quiet)))

IsUpdatesConfiguredAndroid ==
    Finish("isUpdatesConfiguredAndroidAsync", isUpdatesConfiguredAndroidAsync(Start(Quiet)))

Next ==
    \/ ConfigureUpdates
    \/ SetUpdateVersions
    \/ IsUpdatesConfiguredIOS
    \/ IsUpdatesConfiguredAndroid

Spec == Init /\ [][Next]_vars

(***************************************************************************)
(* getAndroidMetadataValue on its own: manifests whose meta-data repeats   *)
(* names, holds items without android:value, or is missing                 *)
(***************************************************************************)
\* mainApplication['meta-data'] of the manifests looked into: every list of
\* at most MaxMeta items over two names and three values (undefined: an
\* item without android:value).
MetaItems ==
    {Entry(n, v) : n \in {RUNTIME_VERSION, UPDATE_URL},
                   v \in {"1.0.0", "1.1.0", Undefined}}

MetaLists == UNION {[1..k -> MetaItems] : k \in 0..MaxMeta}

\* The names asked for; SDK_VERSION is the name of no item.
MetaNames == {RUNTIME_VERSION, UPDATE_URL, SDK_VERSION}

MetaManifests ==
    {FreshManifest,
     [exists |-> TRUE, fmt |-> "user", mainApp |-> FALSE, hasMeta |-> FALSE, meta |-> <<>>]}
        \cup {[exists |-> TRUE, fmt |-> "user", mainApp |-> TRUE, hasMeta |-> TRUE,
               meta |-> l] : l \in MetaLists}

MetaInit ==
    /\ deps = Installed
    /\ exp = [runtimeVersion |-> "1.0.0", sdkVersion |-> Null]
    /\ username = "alice"
    /\ fs \in {Project(ConfiguredGradle, m, ConfiguredPbx, ConfiguredPlist) :
                  m \in MetaManifests}
    /\ pre = fs
    /\ last = NoCall
    /\ prev = NoCall
    /\ runs = 0

\* One call getAndroidMetadataValue(androidManifestJSON, name): the name
\* asked for is the event, the value returned the result.
GetAndroidMetadataValue ==
    \E name \in MetaNames :
        LET s1 == Note(Start(Quiet), name)
        IN  Finish("getAndroidMetadataValue",
                   IF MainApplicationMissing(s1.fs.manifest)
                   THEN Throw(s1, "TypeError")
                   ELSE Return(s1, getAndroidMetadataValue(s1.fs.manifest, name)))

MetaNext == GetAndroidMetadataValue

MetaSpec == MetaInit /\ [][MetaNext]_vars

(***************************************************************************)
(* Vocabulary of the properties                                            *)
(***************************************************************************)
AndroidFileEvents == {"write:build.gradle", "write:AndroidManifest.xml"}
IOSFileEvents == {"write:project.pbxproj", "mkdirp", "write:Expo.plist", "stage:Expo.plist"}
FileEvents == AndroidFileEvents \cup IOSFileEvents
GitCheckEvents == {"gitCheck:clean", "gitCheck:dirty"}
CommitEvents == {"commit:ok", "commit:declined"}

HasAny(tr, evs) == \E i \in DOMAIN tr : tr[i] \in evs
CountAny(tr, evs) == Cardinality({i \in DOMAIN tr : tr[i] \in evs})

Reconcilers == {"configureUpdatesAsync", "setUpdateVersionsAsync"}
Predicates == {"isUpdatesConfiguredIOSAsync", "isUpdatesConfiguredAndroidAsync"}

\* The dependency manifest of the project lists expo-updates.
ListsExpoUpdates == deps.present /\ "expo-updates" \in deps.names

\* Both passes of the invocation ran to their end.
BothPassesDone(c) == Has(c.tr, "androidDone") /\ Has(c.tr, "iosDone")

\* C1: a second configureUpdatesAsync after a first one that ran both passes
\* leaves every project file as the first one left it.
C1_Idempotent ==
    (/\ prev.op = "configureUpdatesAsync" /\ BothPassesDone(prev)
     /\ last.op = "configureUpdatesAsync" /\ BothPassesDone(last))
        => fs = pre

\* The first run changed build.gradle, the manifest, the pbxproj and the
\* plist; the second run completed.
C1_Witness ==
    /\ prev.op = "configureUpdatesAsync" /\ BothPassesDone(prev)
    /\ Has(prev.tr, "write:build.gradle") /\ Has(prev.tr, "write:AndroidManifest.xml")
    /\ Has(prev.tr, "write:Expo.plist")
    /\ last.op = "configureUpdatesAsync" /\ BothPassesDone(last)
    /\ last.res = "ok"
    /\ fs = pre

\* C2: isUpdatesConfiguredIOSAsync returned true exactly when the iOS pass of
\* the configureUpdatesAsync that follows it performs no file write.
C2_IOSPredicateAgreesWithWrites ==
    (/\ prev.op = "isUpdatesConfiguredIOSAsync" /\ prev.res = "ok"
     /\ last.op = "configureUpdatesAsync" /\ Has(last.tr, "androidDone")
     /\ last.res # "killed")
        => (prev.ret = "true" <=> ~HasAny(last.tr, IOSFileEvents))

\* C3: isUpdatesConfiguredAndroidAsync returned true exactly when the Android
\* pass of the configureUpdatesAsync that follows it writes neither file; it
\* is the conjunction of the two checks that guard the two writes.
C3_AndroidPredicateAgreesWithWrites ==
    (/\ prev.op = "isUpdatesConfiguredAndroidAsync" /\ prev.res = "ok"
     /\ pre.gradle.exists /\ pre.manifest.exists /\ pre.manifest.mainApp
     /\ last.op = "configureUpdatesAsync" /\ Has(last.tr, "androidDone"))
        => /\ prev.ret = "true" <=> ~HasAny(last.tr, AndroidFileEvents)
           /\ prev.ret = "true" <=>
                  (hasBuildScriptApply(pre.gradle.lines)
                      /\ isMetadataSetAndroid(pre.manifest, exp, username))
           /\ Has(last.tr, "write:build.gradle") <=>
                  ~hasBuildScriptApply(pre.gradle.lines)
           /\ Has(last.tr, "write:AndroidManifest.xml") <=>
                  ~isMetadataSetAndroid(pre.manifest, exp, username)

\* The predicate said true and the pass wrote nothing / said false and the
\* pass wrote the manifest.
C3_Witness ==
    /\ prev.op = "isUpdatesConfiguredAndroidAsync" /\ prev.ret = "false"
    /\ hasBuildScriptApply(pre.gradle.lines)
    /\ last.op = "configureUpdatesAsync" /\ Has(last.tr, "androidDone")
    /\ Has(last.tr, "write:AndroidManifest.xml")
    /\ ~Has(last.tr, "write:build.gradle")

\* C4: without expo-updates among the dependencies every entry point returns
\* normally having done nothing: no file event, no resolution of the
\* configuration, no VCS check, no commit; the predicates answer true.
C4_SkipWhenNotInstalled ==
    (~ListsExpoUpdates /\ last.op # "none")
        => /\ last.res = "ok"
           /\ last.tr = <<>>
           /\ fs = pre
           /\ last.op \in Predicates => last.ret = "true"

\* A full reconciliation was asked for on a project that is not configured.
C4_Witness ==
    /\ ~ListsExpoUpdates
    /\ last.op = "configureUpdatesAsync"
    /\ ~hasBuildScriptApply(fs.gradle.lines)
    /\ prev.op = "isUpdatesConfiguredAndroidAsync"

\* C5: with neither version declared both reconcilers fail with the
\* missing-version error, having written nothing and offered no commit.
C5_MissingVersionIsFatal ==
    (/\ ListsExpoUpdates
     /\ ~Truthy(exp.runtimeVersion) /\ ~Truthy(exp.sdkVersion)
     /\ last.op \in Reconcilers)
        => /\ last.res = "MissingVersionError"
           /\ ~HasAny(last.tr, FileEvents \cup CommitEvents \cup GitCheckEvents)
           /\ fs = pre

C5_Witness ==
    /\ ListsExpoUpdates
    /\ ~Truthy(exp.runtimeVersion) /\ ~Truthy(exp.sdkVersion)
    /\ last.op = "setUpdateVersionsAsync" /\ prev.op = "configureUpdatesAsync"
    /\ last.res = "MissingVersionError"
    /\ ~IncludesBuildScript(fs.pbx.script)

\* C6: the VCS check is asked once, after both passes are done; only a dirty
\* answer leads to the review-and-commit step, which is then offered exactly
\* once; a successful commit makes the entry point return normally, a
\* declined or failed one makes it fail with the final abort error.
C6_DirtyWorkspaceRecovery ==
    (last.op \in Reconcilers) =>
        /\ HasAny(last.tr, GitCheckEvents) =>
              /\ CountAny(last.tr, GitCheckEvents) = 1
              /\ 0 < Pos(last.tr, "androidDone")
              /\ Pos(last.tr, "androidDone") < Pos(last.tr, "iosDone")
              /\ \A i \in DOMAIN last.tr :
                    last.tr[i] \in GitCheckEvents => Pos(last.tr, "iosDone") < i
              /\ \A i \in DOMAIN last.tr :
                    last.tr[i] \in FileEvents => i < Pos(last.tr, "iosDone")
        /\ Has(last.tr, "gitCheck:dirty") => CountAny(last.tr, CommitEvents) = 1
        /\ Has(last.tr, "gitCheck:clean") =>
              ~HasAny(last.tr, CommitEvents) /\ last.res = "ok"
        /\ HasAny(last.tr, CommitEvents) => Has(last.tr, "gitCheck:dirty")
        /\ Has(last.tr, "commit:ok") => last.res = "ok"
        /\ Has(last.tr, "commit:declined") => last.res = "AbortError"
        /\ last.res = "AbortError" => Has(last.tr, "commit:declined")

\* The workspace was dirty after a run that wrote files, and the operator
\* declined the commit.
C6_Witness ==
    /\ last.op = "configureUpdatesAsync"
    /\ Has(last.tr, "write:AndroidManifest.xml") /\ Has(last.tr, "write:Expo.plist")
    /\ Has(last.tr, "gitCheck:dirty") /\ Has(last.tr, "commit:declined")
    /\ last.res = "AbortError"

\* The errors a reconciliation pass or the resolver raises.
PassErrors ==
    {"MissingVersionError", "GradleNotFound", "ManifestNotFound", "TypeError",
     "XcodeProjectNotFound", "ParseError", "BuildPhaseNotFound", "GitAddError"}

\* The error the structure of the project calls for in a full reconciliation
\* that is not interrupted, "none" when the structure is sound.
ExpectedStructuralError(p) ==
    IF ~p.gradle.exists THEN "GradleNotFound"
    ELSE IF ~p.manifest.exists THEN "ManifestNotFound"
    ELSE IF ~p.manifest.mainApp THEN "TypeError"
    ELSE IF ~p.pbx.exists THEN "XcodeProjectNotFound"
    ELSE IF ~p.pbx.parses THEN "ParseError"
    ELSE IF ~p.pbx.hasPhase THEN "BuildPhaseNotFound"
    ELSE "none"

\* The error the structure of the project calls for in a version-only
\* reconciliation that is not interrupted.
ExpectedVersionsError(p) ==
    IF ~p.manifest.exists THEN "ManifestNotFound"
    ELSE IF ~p.manifest.mainApp THEN "TypeError"
    ELSE IF ~p.pbx.exists THEN "XcodeProjectNotFound"
    ELSE "none"

\* C7: a failure other than the dirty-workspace signal reaches the caller as
\* the error that was raised; no VCS check and no commit step happen.
C7_OtherFailuresPropagate ==
    (last.op \in Reconcilers /\ ListsExpoUpdates) =>
        /\ last.res \in PassErrors =>
              ~HasAny(last.tr, GitCheckEvents \cup CommitEvents)
        /\ last.res \in PassErrors \cup {"ok", "AbortError", "killed"}
        /\ (~Truthy(exp.runtimeVersion) /\ ~Truthy(exp.sdkVersion))
              => last.res = "MissingVersionError"
        /\ (/\ last.op = "configureUpdatesAsync"
            /\ Truthy(exp.runtimeVersion) \/ Truthy(exp.sdkVersion)
            /\ ExpectedStructuralError(pre) # "none"
            /\ last.res # "killed")
              => last.res = ExpectedStructuralError(pre)
        /\ (/\ last.op = "setUpdateVersionsAsync"
            /\ Truthy(exp.runtimeVersion) \/ Truthy(exp.sdkVersion)
            /\ ExpectedVersionsError(pre) # "none"
            /\ last.res # "killed")
              => last.res = ExpectedVersionsError(pre)

\* The bundle phase is missing: the Android pass wrote, the iOS pass failed.
C7_Witness ==
    /\ last.op = "configureUpdatesAsync"
    /\ last.res = "BuildPhaseNotFound"
    /\ Has(last.tr, "androidDone")

AndroidErrors == {"GradleNotFound", "ManifestNotFound", "TypeError"}

\* C8: every effect on an Android file precedes the end of the Android pass
\* and every effect on an iOS file follows it; when the Android pass throws,
\* no iOS file is touched.
C8_AndroidBeforeIOS ==
    (last.op \in Reconcilers) =>
        /\ \A i \in DOMAIN last.tr :
              /\ last.tr[i] \in AndroidFileEvents =>
                    (Pos(last.tr, "androidDone") = 0 \/ i < Pos(last.tr, "androidDone"))
              /\ last.tr[i] \in IOSFileEvents =>
                    (0 < Pos(last.tr, "androidDone") /\ Pos(last.tr, "androidDone") < i)
        /\ last.res \in AndroidErrors =>
              /\ ~HasAny(last.tr, IOSFileEvents)
              /\ fs.pbx = pre.pbx /\ fs.plist = pre.plist

\* The Android pass threw on a project whose iOS tree is not configured.
C8_Witness ==
    /\ last.op = "configureUpdatesAsync"
    /\ last.res = "ManifestNotFound"
    /\ ~IncludesBuildScript(fs.pbx.script)
    /\ ~fs.plist.exists

\* C9: after a configureUpdatesAsync that ended (interrupted or failed) with
\* the Android pass done and no iOS file touched, a later complete run writes
\* neither build.gradle nor the manifest and leaves the hook in the bundle
\* phase and the URL and version in the plist; a re-run writes only files whose
\* configuration was missing.
C9_RerunCompletesMissingHalf ==
    (/\ prev.op = "configureUpdatesAsync" /\ last.op = "configureUpdatesAsync"
     /\ BothPassesDone(last))
        => /\ (/\ Has(prev.tr, "androidDone") /\ prev.res # "ok"
               /\ ~HasAny(prev.tr, IOSFileEvents))
                 => /\ ~HasAny(last.tr, AndroidFileEvents)
                    /\ IncludesBuildScript(fs.pbx.script)
                    /\ Truthy(GetKey(fs.plist.entries, UPDATE_URL))
                    /\ isVersionsSetIOS(fs.plist.entries)
           /\ Has(last.tr, "write:build.gradle") => ~hasBuildScriptApply(pre.gradle.lines)
           /\ Has(last.tr, "write:AndroidManifest.xml") =>
                 ~isMetadataSetAndroid(pre.manifest, exp, username)
           /\ Has(last.tr, "write:project.pbxproj") => ~IncludesBuildScript(pre.pbx.script)
           /\ Has(last.tr, "write:Expo.plist") =>
                 ~(pre.plist.exists /\ isMetadataSetIOS(pre.plist.entries, exp, username))

\* C10: with no SDK version declared and runtime version v declared,
\* setVersionsAndroidAsync leaves the manifest alone when its RUNTIME_VERSION
\* entry equals v, and otherwise writes it once with that entry equal to v.
C10_AndroidVersionOnlyPolicy ==
    (/\ last.op = "setUpdateVersionsAsync" /\ Has(last.tr, "androidDone")
     /\ exp.sdkVersion = Null /\ Truthy(exp.runtimeVersion))
        => IF getAndroidMetadataValue(pre.manifest, RUNTIME_VERSION) = exp.runtimeVersion
           THEN /\ ~Has(last.tr, "write:AndroidManifest.xml")
                /\ fs.manifest = pre.manifest
           ELSE /\ Count(last.tr, "write:AndroidManifest.xml") = 1
                /\ getAndroidMetadataValue(fs.manifest, RUNTIME_VERSION) = exp.runtimeVersion

\* A stale runtime version was stored and has been replaced.
C10_Witness ==
    /\ last.op = "setUpdateVersionsAsync" /\ Has(last.tr, "androidDone")
    /\ exp.sdkVersion = Null /\ exp.runtimeVersion = "1.1.0"
    /\ getAndroidMetadataValue(pre.manifest, RUNTIME_VERSION) = "1.0.0"
    /\ getAndroidMetadataValue(fs.manifest, RUNTIME_VERSION) = "1.1.0"

\* The lines of build.gradle that are the apply-from directive, in either
\* quoting.
DirectiveLines(lines) ==
    {i \in DOMAIN lines :
        lines[i] \in {androidBuildScript, androidBuildScriptSingleQuoted}}

\* The full reconciliation got as far as build.gradle and read it.
ReadBuildGradle ==
    /\ last.op = "configureUpdatesAsync" /\ ListsExpoUpdates
    /\ Truthy(exp.runtimeVersion) \/ Truthy(exp.sdkVersion)
    /\ pre.gradle.exists

\* C11: a build.gradle with the directive as a line (either quoting) is not
\* written; one without it gets the comment line, the double-quoted directive
\* and a final newline appended, once; starting from at most one directive
\* line, the file holds exactly one after the Android pass, however often it
\* has run.
C11_DirectiveNeverDuplicated ==
    ReadBuildGradle =>
        /\ DirectiveLines(pre.gradle.lines) # {} =>
              ~Has(last.tr, "write:build.gradle") /\ fs.gradle = pre.gradle
        /\ DirectiveLines(pre.gradle.lines) = {} =>
              \/ /\ Count(last.tr, "write:build.gradle") = 1
                 /\ fs.gradle.lines =
                       pre.gradle.lines \o
                           <<androidBuildComment, androidBuildScript, "">>
              \/ /\ last.res = "killed" /\ last.tr = <<"resolve">>
                 /\ fs.gradle = pre.gradle
        /\ (Cardinality(DirectiveLines(pre.gradle.lines)) <= 1
                /\ Has(last.tr, "androidDone"))
              => Cardinality(DirectiveLines(fs.gradle.lines)) = 1

\* Two full reconciliations in a row from a build.gradle without the
\* directive: the first appended it, the second left the file alone.
C11_Witness ==
    /\ prev.op = "configureUpdatesAsync" /\ Has(prev.tr, "write:build.gradle")
    /\ ReadBuildGradle /\ Has(last.tr, "androidDone")
    /\ ~Has(last.tr, "write:build.gradle")
    /\ Cardinality(DirectiveLines(fs.gradle.lines)) = 1

\* The places of the hook in the shell script of the bundle phase.
HookPlaces(script) == {i \in DOMAIN script : script[i] = "create-manifest-ios.sh"}

\* The script without its closing quote.
Unclosed(script) ==
    IF Len(script) > 0 /\ script[Len(script)] = "\""
    THEN SubSeq(script, 1, Len(script) - 1)
    ELSE script

\* C12: the iOS pass appends the hook to the script of the bundle phase only
\* when the script does not contain it; the text in front of the appended
\* hook is the old script; from a script with at most one occurrence the
\* script holds the hook exactly once after the pass, however often it has
\* run.  Without the pbxproj write the project file is as it was.
C12_HookNeverDuplicated ==
    (last.op = "configureUpdatesAsync") =>
        IF Has(last.tr, "write:project.pbxproj")
        THEN /\ HookPlaces(pre.pbx.script) # {} => fs.pbx.script = pre.pbx.script
             /\ HookPlaces(pre.pbx.script) = {} =>
                   fs.pbx.script =
                       Unclosed(pre.pbx.script) \o <<"create-manifest-ios.sh", "\\n", "\"">>
             /\ Cardinality(HookPlaces(pre.pbx.script)) <= 1 =>
                   Cardinality(HookPlaces(fs.pbx.script)) = 1
        ELSE fs.pbx = pre.pbx

\* Two iOS passes in a row from a script without the hook: the first one
\* appended it, the second one left the script as it was.
C12_Witness ==
    /\ prev.op = "configureUpdatesAsync" /\ Has(prev.tr, "write:project.pbxproj")
    /\ last.op = "configureUpdatesAsync" /\ Has(last.tr, "write:project.pbxproj")
    /\ pre.pbx.script = <<"\"", "react-native-xcode.sh", "\\n", "create-manifest-ios.sh", "\\n", "\"">>
    /\ fs.pbx.script = pre.pbx.script

\* The value stored under a key of Expo.plist, a missing file holding none.
StoredIOS(p, name) ==
    IF p.plist.exists /\ \E i \in DOMAIN p.plist.entries : p.plist.entries[i].name = name
    THEN p.plist.entries[CHOOSE i \in DOMAIN p.plist.entries :
                            p.plist.entries[i].name = name].value
    ELSE Undefined

\* The three parts of the iOS predicate, read off the project files.
ThreePartsIOS(p) ==
    /\ HookPlaces(p.pbx.script) # {}
    /\ StoredIOS(p, "RUNTIME_VERSION") \notin {Undefined, Null, ""}
          \/ StoredIOS(p, "SDK_VERSION") \notin {Undefined, Null, ""}
    /\ StoredIOS(p, "UPDATE_URL") = getUpdateUrl(exp, username)

\* C13: once past the dependency check and the resolver,
\* isUpdatesConfiguredIOSAsync returns true exactly when the script of the
\* bundle phase contains the hook, Expo.plist holds a non-empty runtime or
\* SDK version and its URL entry equals the desired URL (a missing plist
\* holds nothing); it changes no file, and when it fails the project file
\* has no readable bundle phase, so the first part is false.
C13_IOSPredicateIsThreeParts ==
    (/\ last.op = "isUpdatesConfiguredIOSAsync" /\ ListsExpoUpdates
     /\ Truthy(exp.runtimeVersion) \/ Truthy(exp.sdkVersion))
        => /\ last.ret = "true" <=> ThreePartsIOS(fs)
           /\ last.res = "ok" => last.ret \in {"true", "false"}
           /\ last.res # "ok" => ~fs.pbx.hasPhase /\ last.ret = "void"
           /\ fs = pre

\* The answer is false on a project whose plist holds the URL of another
\* account next to the hook and a version.
C13_Witness ==
    /\ last.op = "isUpdatesConfiguredIOSAsync" /\ ListsExpoUpdates
    /\ last.ret = "false"
    /\ HookPlaces(fs.pbx.script) # {}
    /\ StoredIOS(fs, "SDK_VERSION") = "39.0.0"
    /\ StoredIOS(fs, "UPDATE_URL") = "https://exp.host/@bob/app"
    /\ username = "alice"

PlistEvents == {"mkdirp", "write:Expo.plist", "stage:Expo.plist"}

\* The callback of setVersionsIOSAsync hands back the object it was given:
\* the stored runtime (or SDK) version is the declared one.
StoredVersionIsDeclared(p) ==
    \/ Truthy(exp.runtimeVersion) /\ StoredIOS(p, "RUNTIME_VERSION") = exp.runtimeVersion
    \/ Truthy(exp.sdkVersion) /\ StoredIOS(p, "SDK_VERSION") = exp.sdkVersion

\* The three steps of the write-back happened, once each and in this order.
WroteBack(tr) ==
    /\ \A ev \in PlistEvents : Count(tr, ev) = 1
    /\ Pos(tr, "mkdirp") < Pos(tr, "write:Expo.plist")
    /\ Pos(tr, "write:Expo.plist") < Pos(tr, "stage:Expo.plist")

\* C14: modifyExpoPlistAsync creates the directory, writes Expo.plist and
\* stages it exactly when the callback returned another object than it was
\* given.  The callback of the version-only pass returns its argument when
\* the stored runtime (or SDK) version is the declared one: then the plist is
\* neither created, written nor staged; otherwise, and in every full pass,
\* the three steps happen, in this order.
C14_PlistWriteBackOnlyOnChange ==
    /\ (last.op = "setUpdateVersionsAsync" /\ Has(last.tr, "androidDone")) =>
          IF StoredVersionIsDeclared(pre)
          THEN ~HasAny(last.tr, PlistEvents) /\ fs.plist = pre.plist
          ELSE /\ Has(last.tr, "iosDone") => WroteBack(last.tr)
               /\ ~Has(last.tr, "iosDone") =>
                     last.res \in {"killed", "GitAddError", "XcodeProjectNotFound"}
    /\ (last.op = "configureUpdatesAsync" /\ Has(last.tr, "iosDone")) =>
          WroteBack(last.tr)
    /\ (last.op \in Reconcilers) =>
          /\ Has(last.tr, "stage:Expo.plist") => Has(last.tr, "write:Expo.plist")
          /\ Has(last.tr, "write:Expo.plist") =>
                Has(last.tr, "mkdirp") /\ fs.plist.exists /\ fs.plist.fmt = "tool"
          /\ ~Has(last.tr, "write:Expo.plist") => fs.plist = pre.plist

\* The version-only pass ran to its end on a project without Expo.plist
\* or with another version stored: the plist was written and staged;
\* run again, it found the declared version and touched nothing.
C14_Witness ==
    /\ prev.op = "setUpdateVersionsAsync" /\ Has(prev.tr, "iosDone")
    /\ Has(prev.tr, "stage:Expo.plist")
    /\ last.op = "setUpdateVersionsAsync" /\ Has(last.tr, "iosDone")
    /\ StoredVersionIsDeclared(pre)
    /\ ~HasAny(last.tr, PlistEvents)

IsNotVersionEntry(entry) == entry.name \notin {"RUNTIME_VERSION", "SDK_VERSION"}

\* The value stored under a name in the meta-data of the manifest.
StoredAndroid(p, name) ==
    IF p.manifest.hasMeta /\ \E i \in DOMAIN p.manifest.meta : p.manifest.meta[i].name = name
    THEN p.manifest.meta[CHOOSE i \in DOMAIN p.manifest.meta :
                            /\ p.manifest.meta[i].name = name
                            /\ \A j \in 1..(i - 1) : p.manifest.meta[j].name # name].value
    ELSE Undefined

\* C15: setUpdateVersionsAsync writes neither build.gradle nor
\* project.pbxproj and leaves both files as they were; the URL entry of the
\* manifest and of Expo.plist is what it was; every entry of either file
\* other than the runtime and SDK version is what and where it was.
C15_VersionsOnlyFrame ==
    (last.op = "setUpdateVersionsAsync") =>
        /\ ~Has(last.tr, "write:build.gradle")
        /\ ~Has(last.tr, "write:project.pbxproj")
        /\ fs.gradle = pre.gradle
        /\ fs.pbx = pre.pbx
        /\ StoredAndroid(fs, "UPDATE_URL") = StoredAndroid(pre, "UPDATE_URL")
        /\ StoredIOS(fs, "UPDATE_URL") = StoredIOS(pre, "UPDATE_URL")
        /\ SelectSeq(fs.manifest.meta, IsNotVersionEntry)
              = SelectSeq(pre.manifest.meta, IsNotVersionEntry)
        /\ SelectSeq(fs.plist.entries, IsNotVersionEntry)
              = SelectSeq(pre.plist.entries, IsNotVersionEntry)
        /\ fs.manifest.exists = pre.manifest.exists
        /\ fs.manifest.mainApp = pre.manifest.mainApp

\* A version-only run replaced the version on both platforms of a project
\* that stores the URL of another account, and the URL is still there.
C15_Witness ==
    /\ last.op = "setUpdateVersionsAsync" /\ Has(last.tr, "iosDone")
    /\ Has(last.tr, "write:Expo.plist")
    /\ username = "alice"
    /\ StoredIOS(fs, "UPDATE_URL") = "https://exp.host/@bob/app"
    /\ StoredIOS(fs, "RUNTIME_VERSION") # StoredIOS(pre, "RUNTIME_VERSION")

\* A project whose bundle phase lacks the hook and that has no Expo.plist,
\* a signed-in account and a declared runtime version.
FreshIOS(p) ==
    /\ p.pbx.exists /\ p.pbx.parses /\ p.pbx.hasPhase
    /\ HookPlaces(p.pbx.script) = {}
    /\ ~p.plist.exists
    /\ username # Null
    /\ Truthy(exp.runtimeVersion)

\* C16: on such a project a full reconciliation whose iOS pass ran to its end
\* has written project.pbxproj once, the hook appended to the script of the
\* bundle phase, then created Expo.plist with the desired URL and the
\* declared runtime version, and staged it.
C16_FreshIOSProject ==
    (last.op = "configureUpdatesAsync" /\ Has(last.tr, "iosDone") /\ FreshIOS(pre))
        => /\ Count(last.tr, "write:project.pbxproj") = 1
           /\ fs.pbx.script =
                  Unclosed(pre.pbx.script) \o <<"create-manifest-ios.sh", "\\n", "\"">>
           /\ fs.plist.exists
           /\ StoredIOS(fs, "UPDATE_URL") = "https://exp.host/@" \o username \o "/app"
           /\ StoredIOS(fs, "RUNTIME_VERSION") = exp.runtimeVersion
           /\ WroteBack(last.tr)
           /\ Pos(last.tr, "write:project.pbxproj") < Pos(last.tr, "mkdirp")

\* The all-fresh project has been reconciled, and the run returned normally.
C16_Witness ==
    /\ last.op = "configureUpdatesAsync" /\ Has(last.tr, "iosDone")
    /\ last.res = "ok"
    /\ FreshIOS(pre)
    /\ Has(last.tr, "write:build.gradle")
    /\ StoredIOS(fs, "RUNTIME_VERSION") = "1.0.0"

\* C17: on a manifest whose .MainApplication node has no meta-data,
\* getAndroidMetadataValue returns the absent value without raising, whatever
\* the name; on one with meta-data it returns, without raising, the value of
\* the first item of that name, and the absent value when no item has it.
C17_MetadataLookup ==
    (last.op = "getAndroidMetadataValue" /\ fs.manifest.mainApp) =>
        LET meta == fs.manifest.meta
            name == last.tr[1]
        IN  /\ last.res = "ok"
            /\ fs = pre
            /\ ~fs.manifest.hasMeta => last.ret = Undefined
            /\ (fs.manifest.hasMeta /\ \A i \in DOMAIN meta : meta[i].name # name)
                  => last.ret = Undefined
            /\ fs.manifest.hasMeta =>
                  \A i \in DOMAIN meta :
                      (meta[i].name = name /\ \A j \in 1..(i - 1) : meta[j].name # name)
                          => last.ret = meta[i].value

\* The name asked for is that of the second and the third item, which hold
\* different values; the value of the second one came back.
C17_Witness ==
    /\ last.op = "getAndroidMetadataValue" /\ last.res = "ok"
    /\ fs.manifest.hasMeta /\ Len(fs.manifest.meta) = 3
    /\ last.tr[1] = "RUNTIME_VERSION"
    /\ fs.manifest.meta[1].name = "UPDATE_URL"
    /\ fs.manifest.meta[2] = [name |-> "RUNTIME_VERSION", value |-> "1.1.0"]
    /\ fs.manifest.meta[3] = [name |-> "RUNTIME_VERSION", value |-> "1.0.0"]
    /\ last.ret = "1.1.0"

\* C18: whatever the declared configuration and the account, signed in or
\* not, a predicate asked right after a configureUpdatesAsync that returned
\* normally answers true.
C18_ReconcileEstablishesPredicate ==
    (/\ prev.op = "configureUpdatesAsync" /\ prev.res = "ok" /\ ListsExpoUpdates
     /\ last.op \in Predicates)
        => last.res = "ok" /\ last.ret = "true"

\* C19: with a runtime version declared, whatever the SDK version and the
\* stored state, after a setUpdateVersionsAsync that returned normally the
\* runtime version stored in the manifest and the one stored in Expo.plist
\* are the declared one.
C19_VersionsReachDeclared ==
    (/\ last.op = "setUpdateVersionsAsync" /\ last.res = "ok" /\ ListsExpoUpdates
     /\ Truthy(exp.runtimeVersion))
        => /\ StoredAndroid(fs, "RUNTIME_VERSION") = exp.runtimeVersion
           /\ StoredIOS(fs, "RUNTIME_VERSION") = exp.runtimeVersion

\* The version the declared configuration asks the platforms to store: the
\* runtime version when one is declared, the SDK version otherwise.
DeclaredVersionKey == IF Truthy(exp.runtimeVersion) THEN "RUNTIME_VERSION" ELSE "SDK_VERSION"
DeclaredVersion == IF Truthy(exp.runtimeVersion) THEN exp.runtimeVersion ELSE exp.sdkVersion

\* Both platforms store the desired URL and some non-empty version, and the
\* version they store is not the declared one.
StaleVersionOnBoth(p) ==
    /\ username # Null
    /\ StoredAndroid(p, "UPDATE_URL") = "https://exp.host/@" \o username \o "/app"
    /\ StoredIOS(p, "UPDATE_URL") = "https://exp.host/@" \o username \o "/app"
    /\ Truthy(StoredAndroid(p, "RUNTIME_VERSION")) \/ Truthy(StoredAndroid(p, "SDK_VERSION"))
    /\ Truthy(StoredIOS(p, "RUNTIME_VERSION")) \/ Truthy(StoredIOS(p, "SDK_VERSION"))
    /\ StoredAndroid(p, DeclaredVersionKey) # DeclaredVersion
    /\ StoredIOS(p, DeclaredVersionKey) # DeclaredVersion

\* C20: from a project where both platforms store the desired URL and a
\* non-empty version other than the declared one, a configureUpdatesAsync
\* that returned normally leaves the declared version in the manifest and in
\* Expo.plist.
C20_StaleVersionRefreshedOnBoth ==
    (/\ last.op = "configureUpdatesAsync" /\ last.res = "ok" /\ ListsExpoUpdates
     /\ StaleVersionOnBoth(pre))
        => /\ StoredAndroid(fs, DeclaredVersionKey) = DeclaredVersion
           /\ StoredIOS(fs, DeclaredVersionKey) = DeclaredVersion

====
